---- MODULE Spec2Model ----
(***************************************************************************)
(* Model of two components of the repository:                              *)
(*   - the USD scene import adapter, USDStageReader                        *)
(*     (source/blender/io/usd/intern/usd_reader_stage.cc);                 *)
(*   - the keyframe timeline index, AnimKeylist, whose interface is         *)
(*     declared in source/blender/editors/include/ED_keyframes_keylist.h.  *)
(***************************************************************************)
EXTENDS Integers, Sequences, FiniteSets, TLC

\* ------------------------------------------------------------------ bounds
\* Largest number of prims (below the pseudo-root) of a stage.
MaxPrims == 3
\* Largest number of prims of a stage in the specifications of small stages.
MaxSmallPrims == 2
\* Largest number of collect_readers(bmain) calls on one adapter.
MaxCollects == 2
\* Largest number of keyframes inserted into one keylist.
MaxKeys == 4
\* Keyframe times are 0..MaxTime.
MaxTime == 4

\* --------------------------------------------------------------- constants
\* nullptr, as a reader reference.
Null == 0
\* The prim id of the stage's pseudo-root; the other prims are 1..Len(prims).
PseudoRoot == 0
\* The prim id of an invalid prim (GetPrimAtPath of a path that names no prim).
InvalidPrim == -1
\* An empty prim_path_mask.
EmptyMask == -1

VARIABLES
  stage_valid,    \* stage_ is a non-null stage reference
  prims,          \* the stage's prims below the pseudo-root: a sequence of records
  interpolation,  \* the stage's interpolation type
  params,         \* params_ (USDImportParams)
  readers_,       \* the registry: a sequence of reader references
  heap,           \* every reader allocated so far (a reference is an index)
  bmain,          \* the host objects created in bmain: a sequence of records
  warnings,       \* the number of warnings written to std::cerr
  fault,          \* a deleted reader was used or deleted again
  collects,       \* the number of collect_readers(bmain) calls so far
  last_op,        \* the last public operation called on the adapter
  columns,        \* the keylist's columns, in ED_keylist_listbase order
  inserted        \* the keyframe times inserted so far, in order, with repetitions

usd_vars == <<stage_valid, prims, interpolation, params, readers_, heap, bmain,
              warnings, fault, collects, last_op>>
key_vars == <<columns, inserted>>
vars == <<stage_valid, prims, interpolation, params, readers_, heap, bmain,
          warnings, fault, collects, last_op, columns, inserted>>

\* ------------------------------------------------------------------- stage
\* The schema types of a prim. "Imageable" is an imageable prim of no more
\* specific known type, "Other" a prim that is not imageable.
PrimTypes == {"Camera", "BasisCurves", "NurbsCurves", "Mesh", "Light", "Volume",
              "Xform", "Scope", "Imageable", "Other"}

NumPrims == Len(prims)
PrimIds == 1..NumPrims

IsPseudoRoot(prim) == prim = PseudoRoot
IsValidPrim(prim) == prim = PseudoRoot \/ prim \in PrimIds
TypeOf(prim) == IF prim \in PrimIds THEN prims[prim].type ELSE "Other"
GetParent(prim) == IF prim \in PrimIds THEN prims[prim].parent ELSE InvalidPrim

\* prim.IsA<T>() for the schema types the adapter asks about.
IsImageable(prim) == prim \in PrimIds /\ prims[prim].type # "Other"
IsXform(prim) == prim \in PrimIds /\ prims[prim].type = "Xform"
IsScope(prim) == prim \in PrimIds /\ prims[prim].type = "Scope"

\* stage_->GetPrimAtPath(path): the path of prim i is i, 0 the absolute root path.
GetPrimAtPath(path) == IF path = PseudoRoot \/ path \in PrimIds THEN path ELSE InvalidPrim

\* The ids of a set, in increasing order (the stage's child enumeration order).
RECURSIVE SortedSeq(_)
SortedSeq(S) ==
  IF S = {} THEN <<>>
  ELSE LET m == CHOOSE x \in S : \A y \in S : x <= y
       IN <<m>> \o SortedSeq(S \ {m})

\* prim.GetFilteredChildren(predicate): the default predicate leaves out instance
\* proxies, UsdTraverseInstanceProxies lets them in.
GetFilteredChildren(prim) ==
  SortedSeq({c \in PrimIds : /\ prims[c].parent = prim
                             /\ (prims[c].instance_proxy => params.import_instance_proxies)})

\* --------------------------------------------------------------- filtering
\* include_by_visibility without the test for a time-varying attribute.
include_by_visibility_static(prim) ==
  IF ~params.import_visible_only THEN TRUE
  ELSE IF prims[prim].vis = "none" THEN TRUE
  ELSE prims[prim].vis # "invisible"

include_by_visibility(prim) ==
  IF ~params.import_visible_only THEN TRUE
  ELSE IF prims[prim].vis = "none" THEN TRUE
  ELSE IF prims[prim].vis_varying THEN TRUE
  ELSE prims[prim].vis # "invisible"

\* include_by_purpose with the proxy and render options taken for each other.
include_by_purpose_swapped(prim) ==
  IF params.import_guide /\ params.import_proxy /\ params.import_render THEN TRUE
  ELSE IF prims[prim].purpose = "none" THEN TRUE
  ELSE IF prims[prim].purpose = "guide" THEN params.import_guide
  ELSE IF prims[prim].purpose = "proxy" THEN params.import_render
  ELSE IF prims[prim].purpose = "render" THEN params.import_proxy
  ELSE TRUE

include_by_purpose(prim) ==
  IF params.import_guide /\ params.import_proxy /\ params.import_render THEN TRUE
  ELSE IF prims[prim].purpose = "none" THEN TRUE
  ELSE IF prims[prim].purpose = "guide" THEN params.import_guide
  ELSE IF prims[prim].purpose = "proxy" THEN params.import_proxy
  ELSE IF prims[prim].purpose = "render" THEN params.import_render
  ELSE TRUE

\* ----------------------------------------------------------------- readers
\* create_reader_if_allowed that falls back to a USDXformReader for any prim.
create_reader_if_allowed_any(prim) ==
  IF params.import_cameras /\ TypeOf(prim) = "Camera" THEN "USDCameraReader"
  ELSE IF params.import_curves /\ TypeOf(prim) = "BasisCurves" THEN "USDCurvesReader"
  ELSE IF params.import_curves /\ TypeOf(prim) = "NurbsCurves" THEN "USDNurbsReader"
  ELSE IF params.import_meshes /\ TypeOf(prim) = "Mesh" THEN "USDMeshReader"
  ELSE IF params.import_lights /\ TypeOf(prim) = "Light" THEN "USDLightReader"
  ELSE IF params.import_volumes /\ TypeOf(prim) = "Volume" THEN "USDVolumeReader"
  ELSE "USDXformReader"

\* The reader class create_reader_if_allowed constructs for a prim, "none" for nullptr.
create_reader_if_allowed(prim) ==
  IF params.import_cameras /\ TypeOf(prim) = "Camera" THEN "USDCameraReader"
  ELSE IF params.import_curves /\ TypeOf(prim) = "BasisCurves" THEN "USDCurvesReader"
  ELSE IF params.import_curves /\ TypeOf(prim) = "NurbsCurves" THEN "USDNurbsReader"
  ELSE IF params.import_meshes /\ TypeOf(prim) = "Mesh" THEN "USDMeshReader"
  ELSE IF params.import_lights /\ TypeOf(prim) = "Light" THEN "USDLightReader"
  ELSE IF params.import_volumes /\ TypeOf(prim) = "Volume" THEN "USDVolumeReader"
  ELSE IF IsImageable(prim) THEN "USDXformReader"
  ELSE "none"

\* dynamic_cast<USDXformReader *>(reader) succeeds: every reader class the adapter
\* constructs is USDXformReader or derives from it.
IsXformReader(h, reader) ==
  h[reader].class \in {"USDCameraReader", "USDCurvesReader", "USDNurbsReader",
                       "USDMeshReader", "USDLightReader", "USDVolumeReader",
                       "USDXformReader"}

\* USDXformReader::prim_has_xform_ops(): the prim is xformable and has authored ops.
prim_has_xform_ops(prim) == prim \in PrimIds /\ prims[prim].xform_ops

\* A reader as its constructor leaves it: no parent, not merged, reference count 0.
NewReader(prim, class) ==
  [prim |-> prim, class |-> class, parent |-> Null, use_parent_xform |-> FALSE,
   refcount |-> 0, object |-> 0, alive |-> TRUE, deletes |-> 0, gen |-> collects + 1]

\* --------------------------------------------------------------- traversal
\* merge_with_parent without the flag: the merge is reported, the reader not flagged.
merge_with_parent_unflagged(h, reader) ==
  IF ~IsXformReader(h, reader) THEN [merged |-> FALSE, h |-> h]
  ELSE IF h[reader].use_parent_xform THEN [merged |-> FALSE, h |-> h]
  ELSE IF ~IsXform(GetParent(h[reader].prim)) THEN [merged |-> FALSE, h |-> h]
  ELSE IF IsXform(h[reader].prim) \/ IsScope(h[reader].prim) THEN [merged |-> FALSE, h |-> h]
  ELSE IF prim_has_xform_ops(h[reader].prim) THEN [merged |-> FALSE, h |-> h]
  ELSE [merged |-> TRUE, h |-> h]

\* merge_with_parent without the test for authored transform ops.
merge_with_parent_ignores_ops(h, reader) ==
  IF ~IsXformReader(h, reader) THEN [merged |-> FALSE, h |-> h]
  ELSE IF h[reader].use_parent_xform THEN [merged |-> FALSE, h |-> h]
  ELSE IF ~IsXform(GetParent(h[reader].prim)) THEN [merged |-> FALSE, h |-> h]
  ELSE IF IsXform(h[reader].prim) \/ IsScope(h[reader].prim) THEN [merged |-> FALSE, h |-> h]
  ELSE [merged |-> TRUE, h |-> [h EXCEPT ![reader].use_parent_xform = TRUE]]

\* merge_with_parent without the test for a reader that is already merged.
merge_with_parent_merges_again(h, reader) ==
  IF ~IsXformReader(h, reader) THEN [merged |-> FALSE, h |-> h]
  ELSE IF ~IsXform(GetParent(h[reader].prim)) THEN [merged |-> FALSE, h |-> h]
  ELSE IF IsXform(h[reader].prim) \/ IsScope(h[reader].prim) THEN [merged |-> FALSE, h |-> h]
  ELSE IF prim_has_xform_ops(h[reader].prim) THEN [merged |-> FALSE, h |-> h]
  ELSE [merged |-> TRUE, h |-> [h EXCEPT ![reader].use_parent_xform = TRUE]]

\* merge_with_parent(reader): whether the reader was merged, and the readers
\* after the call (a merged reader is flagged).
merge_with_parent(h, reader) ==
  IF ~IsXformReader(h, reader) THEN [merged |-> FALSE, h |-> h]
  ELSE IF h[reader].use_parent_xform THEN [merged |-> FALSE, h |-> h]
  ELSE IF ~IsXform(GetParent(h[reader].prim)) THEN [merged |-> FALSE, h |-> h]
  ELSE IF IsXform(h[reader].prim) \/ IsScope(h[reader].prim) THEN [merged |-> FALSE, h |-> h]
  ELSE IF prim_has_xform_ops(h[reader].prim) THEN [merged |-> FALSE, h |-> h]
  ELSE [merged |-> TRUE, h |-> [h EXCEPT ![reader].use_parent_xform = TRUE]]

\* Registration that counts the registry's reference twice.
RegisterReader_incref_twice(T, prim, class) ==
  LET reader == Len(T.h) + 1
      obj == Len(T.bm) + 1
      made == [NewReader(prim, class) EXCEPT !.object = obj, !.refcount = @ + 2]
  IN [h |-> Append(T.h, made),
      regs |-> Append(T.regs, reader),
      bm |-> Append(T.bm, [prim |-> prim, gen |-> collects + 1])]

\* reader->create_object(bmain, 0.0); readers_.push_back(reader); reader->incref().
\* T is the state the traversal works on: h the readers, regs the registry,
\* bm the host objects.
RegisterReader(T, prim, class) ==
  LET reader == Len(T.h) + 1
      obj == Len(T.bm) + 1
      made == [NewReader(prim, class) EXCEPT !.object = obj, !.refcount = @ + 1]
  IN [h |-> Append(T.h, made),
      regs |-> Append(T.regs, reader),
      bm |-> Append(T.bm, [prim |-> prim, gen |-> collects + 1])]

\* child_reader->parent(reader) for each child reader.
SetParents(h, child_readers, reader) ==
  [r \in DOMAIN h |->
     IF \E i \in DOMAIN child_readers : child_readers[i] = r
     THEN [h[r] EXCEPT !.parent = reader]
     ELSE h[r]]

\* collect_readers(bmain, prim): [T: the state after the call, ret: the reader returned].
RECURSIVE collect_readers_prim(_, _)
RECURSIVE collect_children(_, _, _)
collect_children(children, T, child_readers) ==
  IF children = <<>> THEN [T |-> T, child_readers |-> child_readers]
  ELSE LET r == collect_readers_prim(Head(children), T)
       IN collect_children(Tail(children), r.T,
                           IF r.ret # Null THEN Append(child_readers, r.ret)
                           ELSE child_readers)

collect_readers_prim(prim, T) ==
  IF IsImageable(prim) /\ ~include_by_purpose(prim) THEN [T |-> T, ret |-> Null]
  ELSE IF IsImageable(prim) /\ ~include_by_visibility(prim) THEN [T |-> T, ret |-> Null]
  ELSE
    LET c == collect_children(GetFilteredChildren(prim), T, <<>>)
        m == merge_with_parent(c.T.h, c.child_readers[1])
        class == create_reader_if_allowed(prim)
        R == RegisterReader(c.T, prim, class)
    IN IF IsPseudoRoot(prim) THEN [T |-> c.T, ret |-> Null]
       ELSE IF Len(c.child_readers) = 1 /\ m.merged
         THEN [T |-> [c.T EXCEPT !.h = m.h], ret |-> c.child_readers[1]]
       ELSE IF class = "none" THEN [T |-> c.T, ret |-> Null]
       ELSE [T |-> [R EXCEPT !.h = SetParents(R.h, c.child_readers, Len(R.h))],
             ret |-> Len(R.h)]

\* The traversal root that keeps the invalid prim of a mask that names no prim.
TraversalRoot_keeps_invalid ==
  IF params.prim_path_mask # EmptyMask
  THEN [root |-> GetPrimAtPath(params.prim_path_mask),
        warn |-> ~IsValidPrim(GetPrimAtPath(params.prim_path_mask))]
  ELSE [root |-> PseudoRoot, warn |-> FALSE]

\* The prim the traversal starts from, and whether the warning is written.
TraversalRoot ==
  IF params.prim_path_mask # EmptyMask
  THEN IF IsValidPrim(GetPrimAtPath(params.prim_path_mask))
       THEN [root |-> GetPrimAtPath(params.prim_path_mask), warn |-> FALSE]
       ELSE [root |-> PseudoRoot, warn |-> TRUE]
  ELSE [root |-> PseudoRoot, warn |-> FALSE]

\* clear_readers(): the readers after the loop, and whether the loop touched a
\* reader that was already deleted.
RECURSIVE release_readers(_, _)
release_readers(regs, R) ==
  IF regs = <<>> THEN R
  ELSE LET reader == Head(regs) IN
    IF reader = Null THEN release_readers(Tail(regs), R)
    ELSE IF ~R.h[reader].alive
      THEN release_readers(Tail(regs), [R EXCEPT !.fault = TRUE])
    ELSE LET n == R.h[reader].refcount - 1 IN
      release_readers(Tail(regs),
        [R EXCEPT !.h[reader].refcount = n,
                  !.h[reader].alive = (n # 0),
                  !.h[reader].deletes = IF n = 0 THEN @ + 1 ELSE @])

\* clear_readers without readers_.clear().
clear_readers_keeps_registry(regs, h, f) ==
  LET R == release_readers(regs, [h |-> h, fault |-> f])
  IN [h |-> R.h, fault |-> R.fault, regs |-> regs]

clear_readers(regs, h, f) ==
  LET R == release_readers(regs, [h |-> h, fault |-> f])
  IN [h |-> R.h, fault |-> R.fault, regs |-> <<>>]

valid == stage_valid

\* ---------------------------------------------------------- what a claim reads
\* The readers in the registry, the registered readers of a prim, and the host
\* objects the last collect_readers call created for a set of prims.
Registered == {readers_[i] : i \in DOMAIN readers_}
ReadersOf(prim) == {i \in DOMAIN readers_ : heap[readers_[i]].prim = prim}
ObjectsOf(S) == {o \in DOMAIN bmain : bmain[o].gen = collects /\ bmain[o].prim \in S}

\* A collect_readers(bmain) call on a valid stage has just returned.
Collected == last_op = "collect" /\ stage_valid

StageChildren(prim) == {c \in PrimIds : prims[c].parent = prim}

\* a is a proper ancestor of prim in the stage.
RECURSIVE IsAncestor(_, _)
IsAncestor(a, prim) ==
  /\ prim \in PrimIds
  /\ (prims[prim].parent = a \/ IsAncestor(a, prims[prim].parent))

\* The two filters, read off the prim's attributes and the import options.
VisibilityExcludes(prim) ==
  /\ IsImageable(prim)
  /\ params.import_visible_only
  /\ prims[prim].vis = "invisible"
  /\ ~prims[prim].vis_varying

PurposeExcludes(prim) ==
  /\ IsImageable(prim)
  /\ \/ prims[prim].purpose = "guide" /\ ~params.import_guide
     \/ prims[prim].purpose = "proxy" /\ ~params.import_proxy
     \/ prims[prim].purpose = "render" /\ ~params.import_render

\* The prim the traversal starts from: the prim the mask names, else the pseudo-root.
StartPrim ==
  IF params.prim_path_mask \in 0..NumPrims THEN params.prim_path_mask ELSE PseudoRoot

\* The traversal comes to the prim: it starts there, or it comes to the prim's
\* parent, no filter excludes the parent and the parent's children include the prim.
RECURSIVE Reached(_)
Reached(prim) ==
  \/ prim = StartPrim
  \/ /\ prim \in PrimIds
     /\ prims[prim].instance_proxy => params.import_instance_proxies
     /\ Reached(prims[prim].parent)
     /\ ~VisibilityExcludes(prims[prim].parent)
     /\ ~PurposeExcludes(prims[prim].parent)

\* The traversal comes to the prim and no filter excludes it.
Traversed(prim) == Reached(prim) /\ ~VisibilityExcludes(prim) /\ ~PurposeExcludes(prim)

\* ----------------------------------------------------------------- keylist
\* The times a keyframe can be at (cfra).
Times == 0..MaxTime

\* A column as created for the first keyframe at its time.
NewColumn(cfra) == [cfra |-> cfra, totkey |-> 1]

\* The place of the column at cfra in the ordered columns, 0 if there is none.
ED_keylist_find_exact(cols, cfra) ==
  IF \E i \in DOMAIN cols : cols[i].cfra = cfra
  THEN CHOOSE i \in DOMAIN cols : cols[i].cfra = cfra
  ELSE 0

\* add_to_keycolumns that puts a new column at the end of the list.
add_to_keycolumns_append(cols, cfra) ==
  LET at == ED_keylist_find_exact(cols, cfra)
  IN IF at # 0 THEN [cols EXCEPT ![at].totkey = @ + 1]
     ELSE Append(cols, NewColumn(cfra))

\* Locate or create the column at the keyframe's time: a keyframe at the time of
\* a column is merged into it, another gets a new column at its place in time order.
add_to_keycolumns(cols, cfra) ==
  LET at == ED_keylist_find_exact(cols, cfra)
      before == Cardinality({i \in DOMAIN cols : cols[i].cfra < cfra})
  IN IF at # 0 THEN [cols EXCEPT ![at].totkey = @ + 1]
     ELSE SubSeq(cols, 1, before) \o <<NewColumn(cfra)>> \o SubSeq(cols, before + 1, Len(cols))

\* ED_keylist_listbase(keylist): the columns in order.
ED_keylist_listbase == columns

\* A population operation (fcurve_to_keylist, ...) adding one keyframe.
AddKeyframe(cfra) ==
  /\ Len(inserted) < MaxKeys
  /\ columns' = add_to_keycolumns(columns, cfra)
  /\ inserted' = Append(inserted, cfra)
  /\ UNCHANGED usd_vars

NextKeylist == \E cfra \in Times : AddKeyframe(cfra)

\* ----------------------------------------------------------------- actions
\* USDStageReader::collect_readers(Main *bmain)
CollectReaders ==
  /\ last_op # "destroy"
  /\ collects < MaxCollects
  /\ collects' = collects + 1
  /\ last_op' = "collect"
  /\ IF ~valid
     THEN UNCHANGED <<readers_, heap, bmain, warnings, fault, interpolation>>
     ELSE LET cleared == clear_readers(readers_, heap, fault)
              tr == TraversalRoot
              res == collect_readers_prim(tr.root,
                       [h |-> cleared.h, regs |-> cleared.regs, bm |-> bmain]).T
          IN /\ warnings' = IF tr.warn THEN warnings + 1 ELSE warnings
             /\ interpolation' = "Held"
             /\ readers_' = res.regs
             /\ heap' = res.h
             /\ bmain' = res.bm
             /\ fault' = cleared.fault
  /\ UNCHANGED <<stage_valid, prims, params, columns, inserted>>

\* USDStageReader::clear_readers()
ClearReaders ==
  /\ last_op # "destroy"
  /\ last_op' = "clear"
  /\ LET cleared == clear_readers(readers_, heap, fault)
     IN /\ readers_' = cleared.regs
        /\ heap' = cleared.h
        /\ fault' = cleared.fault
  /\ UNCHANGED <<stage_valid, prims, params, interpolation, bmain, warnings, collects,
                 columns, inserted>>

\* USDStageReader::~USDStageReader()
Destructor ==
  /\ last_op # "destroy"
  /\ last_op' = "destroy"
  /\ LET cleared == clear_readers(readers_, heap, fault)
     IN /\ readers_' = cleared.regs
        /\ heap' = cleared.h
        /\ fault' = cleared.fault
  /\ UNCHANGED <<stage_valid, prims, params, interpolation, bmain, warnings, collects,
                 columns, inserted>>

Next ==
  \/ CollectReaders
  \/ ClearReaders
  \/ Destructor

\* ------------------------------------------------------------ initial states
AllParams ==
  [import_cameras |-> TRUE, import_curves |-> TRUE, import_meshes |-> TRUE,
   import_lights |-> TRUE, import_volumes |-> TRUE, import_instance_proxies |-> TRUE,
   import_visible_only |-> FALSE, import_guide |-> TRUE, import_proxy |-> TRUE,
   import_render |-> TRUE, prim_path_mask |-> EmptyMask]

\* A prim's attributes: no visibility or purpose attribute, not an instance proxy.
Attr(type, ops) ==
  [type |-> type, xform_ops |-> ops, vis |-> "none", vis_varying |-> FALSE,
   purpose |-> "none", instance_proxy |-> FALSE]

\* The stages of at most max prims whose prims draw their attributes from Opts.
\* A prim's parent comes before it; the descendants of an instance proxy are
\* instance proxies, and a child of the pseudo-root is none.
StagesOf(Opts, n) ==
  { s \in { [i \in 1..n |-> [parent |-> ps[i]] @@ as[i]] :
              ps \in { f \in [1..n -> 0..n] : \A i \in 1..n : f[i] < i },
              as \in [1..n -> Opts] } :
      \A i \in 1..n :
        /\ (s[i].instance_proxy => s[i].parent # PseudoRoot)
        /\ (s[i].parent # PseudoRoot /\ s[s[i].parent].instance_proxy
              => s[i].instance_proxy) }

Stages(Opts, max) == UNION { StagesOf(Opts, n) : n \in 0..max }

\* The adapter after its constructor, on any stage of Ss with any params of Ps,
\* or on a null stage reference.
InitAdapter(Ss, Ps) ==
  /\ \/ stage_valid = TRUE /\ prims \in Ss
     \/ stage_valid = FALSE /\ prims = <<>>
  /\ params \in Ps
  /\ interpolation = "Linear"
  /\ readers_ = <<>>
  /\ heap = <<>>
  /\ bmain = <<>>
  /\ warnings = 0
  /\ fault = FALSE
  /\ collects = 0
  /\ last_op = "new"

InitKeylistIdle ==
  /\ columns = <<>>
  /\ inserted = <<>>

\* Spec: deep stages of transform, scope, mesh and non-imageable prims.
MergeOpts ==
  {Attr("Xform", FALSE), Attr("Scope", FALSE), Attr("Mesh", FALSE), Attr("Mesh", TRUE),
   Attr("Other", FALSE)}

Init ==
  /\ InitAdapter(Stages(MergeOpts, MaxPrims), {AllParams})
  /\ InitKeylistIdle

Spec == Init /\ [][Next]_vars

\* SpecKinds: small stages of prims of every type, every import category on or off.
KindOpts ==
  {Attr(t, FALSE) : t \in PrimTypes} \cup {Attr("Mesh", TRUE), Attr("Xform", TRUE)}

KindParams ==
  {[AllParams EXCEPT !.import_cameras = b, !.import_curves = b, !.import_meshes = b,
                     !.import_lights = b, !.import_volumes = b] : b \in BOOLEAN}

InitKinds ==
  /\ InitAdapter(Stages(KindOpts, MaxSmallPrims), KindParams)
  /\ InitKeylistIdle

SpecKinds == InitKinds /\ [][Next]_vars

\* SpecVisibility: small stages whose prims differ in their visibility attribute,
\* some of them instance proxies.
VisibilityOpts ==
  {[Attr(t, FALSE) EXCEPT !.vis = v[1], !.vis_varying = v[2]] :
     t \in {"Xform", "Mesh"},
     v \in {<<"none", FALSE>>, <<"inherited", FALSE>>, <<"invisible", FALSE>>,
            <<"invisible", TRUE>>}}
  \cup {Attr("Other", FALSE), [Attr("Mesh", FALSE) EXCEPT !.instance_proxy = TRUE]}

VisibilityParams ==
  {[AllParams EXCEPT !.import_visible_only = b, !.import_instance_proxies = p] :
     b \in BOOLEAN, p \in BOOLEAN}

InitVisibility ==
  /\ InitAdapter(Stages(VisibilityOpts, MaxSmallPrims), VisibilityParams)
  /\ InitKeylistIdle

SpecVisibility == InitVisibility /\ [][Next]_vars

\* SpecPurpose: small stages whose prims differ in their purpose attribute.
PurposeOpts ==
  {[Attr("Mesh", FALSE) EXCEPT !.purpose = u] :
     u \in {"none", "default", "guide", "proxy", "render"}}
  \cup {Attr("Xform", FALSE), Attr("Other", FALSE)}

PurposeParams ==
  {[AllParams EXCEPT !.import_guide = g, !.import_proxy = p, !.import_render = r] :
     g \in BOOLEAN, p \in BOOLEAN, r \in BOOLEAN}

InitPurpose ==
  /\ InitAdapter(Stages(PurposeOpts, MaxSmallPrims), PurposeParams)
  /\ InitKeylistIdle

SpecPurpose == InitPurpose /\ [][Next]_vars

\* SpecMask: deep stages, every prim path mask.
MaskOpts == {Attr("Xform", FALSE), Attr("Mesh", FALSE), Attr("Other", FALSE)}

MaskParams ==
  {[AllParams EXCEPT !.prim_path_mask = m] : m \in {EmptyMask} \cup 0..(MaxPrims + 1)}

InitMask ==
  /\ InitAdapter(Stages(MaskOpts, MaxPrims), MaskParams)
  /\ InitKeylistIdle

SpecMask == InitMask /\ [][Next]_vars

\* SpecKeylist: keyframes added to a fresh keylist; no adapter operation runs.
InitKeylist ==
  /\ InitAdapter({<<>>}, {AllParams})
  /\ stage_valid = FALSE
  /\ columns = <<>>
  /\ inserted = <<>>

SpecKeylist == InitKeylist /\ [][NextKeylist]_vars

\* ================================================================== claims

\* C8: after any sequence of keyframe insertions into a fresh keylist, the
\* columns of ED_keylist_listbase have strictly increasing cfra, their cfra are
\* exactly the distinct times inserted, and a keyframe at a time already present
\* is counted in that time's one column (totkey) instead of adding a column.
C8_KeylistOrderedUnique ==
  LET cols == ED_keylist_listbase IN
  /\ \A i \in DOMAIN cols : \A j \in DOMAIN cols : i < j => cols[i].cfra < cols[j].cfra
  /\ {cols[i].cfra : i \in DOMAIN cols} = {inserted[k] : k \in DOMAIN inserted}
  /\ \A i \in DOMAIN cols :
       cols[i].totkey = Cardinality({k \in DOMAIN inserted : inserted[k] = cols[i].cfra})

\* A time was inserted twice, and a later keyframe is earlier in time than one before it.
C8_Witness ==
  /\ \E k \in DOMAIN inserted : \E l \in DOMAIN inserted : k < l /\ inserted[k] = inserted[l]
  /\ \E k \in DOMAIN inserted : \E l \in DOMAIN inserted : k < l /\ inserted[l] < inserted[k]
  /\ Len(columns) >= 2

\* C1: after collect_readers, for an Xform prim the traversal goes through whose
\* only child is a mesh prim without authored transform ops (the traversal goes
\* through it too): one reader is registered and one host object created for the
\* two prims, the reader is the mesh prim's and is flagged use_parent_xform, and
\* the Xform prim has no reader.
C1_XformMerge ==
  Collected =>
    \A x \in PrimIds : \A m \in PrimIds :
      ( /\ IsXform(x) /\ Traversed(x)
        /\ StageChildren(x) = {m}
        /\ TypeOf(m) = "Mesh" /\ ~prims[m].xform_ops /\ Traversed(m) )
      => /\ ReadersOf(x) = {}
         /\ Cardinality(ReadersOf(m)) = 1
         /\ Cardinality(ObjectsOf({x, m})) = 1
         /\ \A i \in ReadersOf(m) :
              /\ heap[readers_[i]].use_parent_xform
              /\ heap[readers_[i]].alive
              /\ heap[readers_[i]].object \in ObjectsOf({m})
              /\ params.import_meshes => heap[readers_[i]].class = "USDMeshReader"

\* An Xform prim was merged into its only child, a mesh prim.
C1_Witness ==
  /\ Collected
  /\ \E x \in PrimIds : \E m \in PrimIds :
       /\ IsXform(x) /\ StageChildren(x) = {m}
       /\ TypeOf(m) = "Mesh" /\ ~prims[m].xform_ops
       /\ ReadersOf(x) = {}
       /\ \E i \in ReadersOf(m) : /\ heap[readers_[i]].use_parent_xform
                                  /\ heap[readers_[i]].class = "USDMeshReader"

\* C2: after collect_readers, for an Xform prim the traversal goes through whose
\* only child is a mesh prim with an authored transform op: the Xform prim and
\* the mesh prim each have one registered reader and one host object, the mesh
\* reader's parent is the Xform prim's reader, and the mesh reader is not flagged
\* use_parent_xform.
C2_MergeSuppressed ==
  Collected =>
    \A x \in PrimIds : \A m \in PrimIds :
      ( /\ IsXform(x) /\ Traversed(x)
        /\ StageChildren(x) = {m}
        /\ TypeOf(m) = "Mesh" /\ prims[m].xform_ops /\ Traversed(m) )
      => /\ Cardinality(ReadersOf(x)) = 1
         /\ Cardinality(ReadersOf(m)) = 1
         /\ Cardinality(ObjectsOf({x})) = 1
         /\ Cardinality(ObjectsOf({m})) = 1
         /\ \A i \in ReadersOf(m) : \A j \in ReadersOf(x) :
              /\ heap[readers_[i]].parent = readers_[j]
              /\ ~heap[readers_[i]].use_parent_xform
              /\ heap[readers_[i]].object \in ObjectsOf({m})
              /\ heap[readers_[j]].object \in ObjectsOf({x})

\* An Xform prim and its only child, a mesh prim with authored ops, both have a reader.
C2_Witness ==
  /\ Collected
  /\ \E x \in PrimIds : \E m \in PrimIds :
       /\ IsXform(x) /\ StageChildren(x) = {m}
       /\ TypeOf(m) = "Mesh" /\ prims[m].xform_ops
       /\ ReadersOf(x) # {} /\ ReadersOf(m) # {}
       /\ \A i \in ReadersOf(m) : heap[readers_[i]].class = "USDMeshReader"

\* The prim has a registered reader, or it is an Xform prim merged into a child
\* (the child's reader is flagged use_parent_xform).
HasReaderOrMerged(prim) ==
  \/ ReadersOf(prim) # {}
  \/ /\ IsXform(prim)
     /\ \E c \in StageChildren(prim) :
          \E i \in ReadersOf(c) : heap[readers_[i]].use_parent_xform

\* No reader is registered and no host object was created for the prim or any
\* prim below it.
SubtreeEmpty(prim) ==
  \A d \in PrimIds :
    (d = prim \/ IsAncestor(prim, d)) => ReadersOf(d) = {} /\ ObjectsOf({d}) = {}

\* The traversal's start is the prim or an ancestor of it.
UnderStart(prim) == StartPrim = prim \/ IsAncestor(StartPrim, prim)

\* C3: after collect_readers with import_visible_only, an imageable prim whose
\* visibility attribute exists, is not time-varying and is "invisible" has no
\* reader and no host object, nor has any prim below it; an imageable prim the
\* traversal comes to that this filter does not exclude (in particular one with
\* no visibility attribute or a time-varying one, and any prim when
\* import_visible_only is off) and the purpose filter does not exclude gets a
\* reader or is merged into its child.
C3_VisibilityFilter ==
  Collected =>
    \A p \in PrimIds :
      /\ ( /\ IsImageable(p) /\ params.import_visible_only
           /\ prims[p].vis = "invisible" /\ ~prims[p].vis_varying
           /\ UnderStart(p) )
         => SubtreeEmpty(p)
      /\ ( /\ IsImageable(p) /\ Reached(p) /\ ~PurposeExcludes(p)
           /\ \/ prims[p].vis = "none"
              \/ prims[p].vis_varying
              \/ ~params.import_visible_only
              \/ prims[p].vis # "invisible" )
         => HasReaderOrMerged(p)

\* With import_visible_only, a prim with a static "invisible" visibility is left
\* out with its child, while a prim with a time-varying "invisible" visibility
\* has a reader.
C3_Witness ==
  /\ Collected
  /\ params.import_visible_only
  /\ \E p \in PrimIds : \E c \in StageChildren(p) :
       /\ VisibilityExcludes(p) /\ Reached(p)
       /\ IsImageable(c) /\ ~VisibilityExcludes(c)
       /\ (prims[c].instance_proxy => params.import_instance_proxies)
       /\ ReadersOf(p) = {} /\ ReadersOf(c) = {}

\* A prim with a time-varying "invisible" visibility has a reader although
\* import_visible_only is on.
C3_WitnessVarying ==
  /\ Collected
  /\ params.import_visible_only
  /\ \E p \in PrimIds :
       prims[p].vis = "invisible" /\ prims[p].vis_varying /\ ReadersOf(p) # {}

\* C4: include_by_purpose is true for every prim when guide, proxy and render
\* are all enabled; otherwise true for a prim with no purpose attribute, the
\* matching enabled-flag for a guide, proxy or render prim, and true for any
\* other purpose; after collect_readers an excluded prim and the prims below it
\* have no reader, and an imageable prim the traversal goes through has a reader
\* or is merged into its child.
C4_PurposeFilter ==
  /\ \A p \in PrimIds : IsImageable(p) =>
       /\ (params.import_guide /\ params.import_proxy /\ params.import_render)
            => include_by_purpose(p)
       /\ prims[p].purpose = "none" => include_by_purpose(p)
       /\ ~(params.import_guide /\ params.import_proxy /\ params.import_render) =>
            /\ prims[p].purpose = "guide" => (include_by_purpose(p) <=> params.import_guide)
            /\ prims[p].purpose = "proxy" => (include_by_purpose(p) <=> params.import_proxy)
            /\ prims[p].purpose = "render" => (include_by_purpose(p) <=> params.import_render)
       /\ prims[p].purpose \notin {"guide", "proxy", "render"} => include_by_purpose(p)
  /\ Collected =>
       \A p \in PrimIds :
         /\ (PurposeExcludes(p) /\ UnderStart(p)) => SubtreeEmpty(p)
         /\ (IsImageable(p) /\ Traversed(p)) => HasReaderOrMerged(p)

\* With guide disabled and proxy and render enabled, a guide prim with a child
\* has no reader, nor has the child, and a render prim has a reader.
C4_Witness ==
  /\ Collected
  /\ ~params.import_guide /\ params.import_proxy /\ params.import_render
  /\ \E g \in PrimIds : \E r \in PrimIds :
       /\ prims[g].purpose = "guide" /\ Reached(g) /\ ReadersOf(g) = {}
       /\ prims[r].purpose = "render" /\ ReadersOf(r) # {}

\* C5: every registered reader is alive and holds the registry's one reference,
\* and no reader is alive outside the registry; after clear_readers (also from
\* the destructor) the registry is empty and every reader ever registered is
\* deallocated, deleted once, with reference count 0; a further clear_readers
\* changes nothing, and no deleted reader is ever used or deleted again.
C5_RefcountLifetime ==
  /\ [](/\ \A i \in DOMAIN readers_ :
             /\ readers_[i] \in DOMAIN heap
             /\ heap[readers_[i]].alive
             /\ heap[readers_[i]].refcount = 1
             /\ \A j \in DOMAIN readers_ : readers_[i] = readers_[j] => i = j
        /\ \A r \in DOMAIN heap : heap[r].alive => r \in Registered
        /\ last_op \in {"clear", "destroy"} =>
             /\ readers_ = <<>>
             /\ \A r \in DOMAIN heap :
                  ~heap[r].alive /\ heap[r].refcount = 0 /\ heap[r].deletes = 1
        /\ ~fault)
  /\ [][(last_op = "clear" /\ last_op' = "clear") =>
          (readers_' = readers_ /\ heap' = heap /\ bmain' = bmain /\ fault' = fault)]_vars

\* clear_readers has released the readers of two collect_readers calls.
C5_Witness ==
  /\ last_op = "clear"
  /\ collects = 2
  /\ readers_ = <<>>
  /\ \E r \in DOMAIN heap : heap[r].gen = 1 /\ ~heap[r].alive
  /\ \E r \in DOMAIN heap : heap[r].gen = 2 /\ ~heap[r].alive

\* C6: after every collect_readers(bmain) call the registry holds only readers
\* that call created, and the readers of earlier calls are released (deleted
\* once); on an adapter whose stage is not valid the call leaves the registry
\* empty, creates no reader and no host object, writes no warning and fails
\* nowhere.
C6_IdempotentRebuild ==
  last_op = "collect" =>
    /\ \A i \in DOMAIN readers_ :
         heap[readers_[i]].gen = collects /\ heap[readers_[i]].alive
    /\ \A r \in DOMAIN heap :
         heap[r].gen < collects => ~heap[r].alive /\ heap[r].deletes = 1
    /\ ~fault
    /\ ~stage_valid =>
         readers_ = <<>> /\ heap = <<>> /\ bmain = <<>> /\ warnings = 0

\* A second collect_readers call released the readers of the first and
\* registered its own.
C6_Witness ==
  /\ last_op = "collect"
  /\ collects = 2
  /\ readers_ # <<>>
  /\ \E r \in DOMAIN heap : heap[r].gen = 1 /\ ~heap[r].alive
  /\ \A i \in DOMAIN readers_ : heap[readers_[i]].gen = 2

\* A collect_readers call has returned on an adapter whose stage is not valid.
C6_WitnessInvalid == last_op = "collect" /\ ~stage_valid /\ readers_ = <<>>

\* The registry as a caller reads it: for each reader in order its prim, its
\* class, its parent reader's prim and its merge flag.
RegistryView(regs, h) ==
  [i \in DOMAIN regs |->
     [prim |-> h[regs[i]].prim,
      class |-> h[regs[i]].class,
      parent_prim |-> IF h[regs[i]].parent = Null THEN InvalidPrim
                      ELSE h[h[regs[i]].parent].prim,
      use_parent_xform |-> h[regs[i]].use_parent_xform]]

\* The registry of a traversal of the stage from the prim, with no reader before it.
TraversalFrom(prim) ==
  LET T == collect_readers_prim(prim, [h |-> <<>>, regs |-> <<>>, bm |-> <<>>]).T
  IN RegistryView(T.regs, T.h)

\* C7: after collect_readers, with a non-empty mask that names no prim of the
\* stage every call has written a warning and the registry is the one of a
\* traversal from the pseudo-root, the same as with an empty mask; with a mask
\* that names a prim no warning is written, the registry is the one of a
\* traversal from that prim, and every registered reader's prim is that prim or
\* below it.
C7_PathMaskFallback ==
  Collected =>
    LET mask == params.prim_path_mask
        view == RegistryView(readers_, heap)
    IN /\ mask = EmptyMask => warnings = 0 /\ view = TraversalFrom(PseudoRoot)
       /\ (mask # EmptyMask /\ mask \notin 0..NumPrims) =>
            warnings = collects /\ view = TraversalFrom(PseudoRoot)
       /\ (mask # EmptyMask /\ mask \in 0..NumPrims) =>
            /\ warnings = 0
            /\ view = TraversalFrom(mask)
            /\ \A r \in Registered : heap[r].prim = mask \/ IsAncestor(mask, heap[r].prim)

\* A mask that names no prim: the warning is written and readers are registered.
C7_Witness ==
  /\ Collected
  /\ params.prim_path_mask # EmptyMask
  /\ params.prim_path_mask \notin 0..NumPrims
  /\ warnings >= 1
  /\ Len(readers_) >= 2

\* A mask that names a prim below the pseudo-root: a prim outside its subtree
\* has no reader.
C7_WitnessSubtree ==
  /\ Collected
  /\ params.prim_path_mask \in PrimIds
  /\ readers_ # <<>>
  /\ \E p \in PrimIds : IsImageable(p) /\ ~UnderStart(p) /\ ReadersOf(p) = {}

\* The readers collect_readers has in child_readers when it decides about the
\* prim: the unmerged readers of the prim's children and the merged readers of
\* the children of its merged Xform children.
ChildReaders(prim) ==
  {r \in Registered :
     \/ prims[heap[r].prim].parent = prim /\ ~heap[r].use_parent_xform
     \/ /\ heap[r].use_parent_xform
        /\ prims[heap[r].prim].parent \in PrimIds
        /\ prims[prims[heap[r].prim].parent].parent = prim}

\* C9: after collect_readers, a prim below the pseudo-root that the traversal
\* comes to and that is not imageable has no reader and no host object; the
\* readers collected from its children have no parent reader, and no reader
\* below the prim has a parent reader outside the prim's subtree.
C9_UnmatchedPrimDropsChildren ==
  Collected =>
    \A p \in PrimIds :
      (Reached(p) /\ ~IsImageable(p)) =>
        /\ ReadersOf(p) = {}
        /\ ObjectsOf({p}) = {}
        /\ \A r \in ChildReaders(p) : heap[r].parent = Null
        /\ \A r \in Registered :
             (IsAncestor(p, heap[r].prim) /\ heap[r].parent # Null) =>
               IsAncestor(p, heap[heap[r].parent].prim)

\* A prim that is not imageable stands between a prim with a reader and a child
\* with a reader: the child's reader has no parent.
C9_Witness ==
  /\ Collected
  /\ \E p \in PrimIds :
       /\ ~IsImageable(p) /\ Reached(p)
       /\ prims[p].parent \in PrimIds /\ ReadersOf(prims[p].parent) # {}
       /\ \E r \in ChildReaders(p) : heap[r].parent = Null

\* C10: after collect_readers, every registered reader flagged use_parent_xform
\* wraps a prim that is neither Xform nor Scope and has no authored ops, whose
\* parent is an Xform prim with no registered reader, and the reader's parent
\* reader, if set, wraps a proper ancestor of that Xform prim; in a chain Xform
\* -> Xform -> leaf only the inner Xform is merged into the leaf and the outer
\* Xform has its own reader, the leaf reader's parent; no reader wraps the
\* pseudo-root.
C10_MergeInvariant ==
  Collected =>
    /\ \A r \in Registered :
         /\ heap[r].prim \in PrimIds
         /\ heap[r].use_parent_xform =>
              LET prim == heap[r].prim
                  x == prims[prim].parent
              IN /\ ~IsXform(prim) /\ ~IsScope(prim)
                 /\ ~prims[prim].xform_ops
                 /\ IsXform(x)
                 /\ ReadersOf(x) = {}
                 /\ heap[r].parent # Null => IsAncestor(heap[heap[r].parent].prim, x)
    /\ \A outer \in PrimIds : \A inner \in PrimIds : \A leaf \in PrimIds :
         ( /\ IsXform(outer) /\ Traversed(outer) /\ StageChildren(outer) = {inner}
           /\ IsXform(inner) /\ Traversed(inner) /\ StageChildren(inner) = {leaf}
           /\ Traversed(leaf) /\ IsImageable(leaf)
           /\ ~IsXform(leaf) /\ ~IsScope(leaf) /\ ~prims[leaf].xform_ops )
         => /\ ReadersOf(inner) = {}
            /\ Cardinality(ReadersOf(outer)) = 1
            /\ Cardinality(ReadersOf(leaf)) = 1
            /\ \A i \in ReadersOf(leaf) : \A j \in ReadersOf(outer) :
                 /\ heap[readers_[i]].use_parent_xform
                 /\ heap[readers_[i]].parent = readers_[j]
                 /\ ~heap[readers_[j]].use_parent_xform

\* A chain Xform -> Xform -> mesh was traversed: the mesh reader is merged and
\* its parent is the outer Xform prim's reader.
C10_Witness ==
  /\ Collected
  /\ \E outer \in PrimIds : \E inner \in PrimIds : \E leaf \in PrimIds :
       /\ IsXform(outer) /\ StageChildren(outer) = {inner}
       /\ IsXform(inner) /\ StageChildren(inner) = {leaf}
       /\ TypeOf(leaf) = "Mesh"
       /\ ReadersOf(inner) = {}
       /\ \E i \in ReadersOf(leaf) : \E j \in ReadersOf(outer) :
            heap[readers_[i]].use_parent_xform /\ heap[readers_[i]].parent = readers_[j]

====
